---- MODULE Spec2Model ----
(***************************************************************************)
(* Model of avr-int24: the 24 bit saturating signed integer type Int24.    *)
(*                                                                         *)
(* An Int24Raw is the tuple <<b0, b1, b2>> of three 8 bit limbs, little    *)
(* endian, two's complement.  The AVR routines of asm_avr.rs are modelled  *)
(* instruction by instruction on 8 bit registers and the carry, zero and   *)
(* T flags.  The const variants of lib.rs are modelled on Rust's i32 with  *)
(* its overflow behaviour (panic with overflow checks, wrap without).      *)
(*                                                                         *)
(* TLC's integers are 32 bit, so a product of two 24 bit values is never   *)
(* computed with * directly: it is computed on byte limbs.                 *)
(***************************************************************************)
EXTENDS Integers, Sequences, FiniteSets, TLC

VARIABLES pc, op, a, b, count, num, res, ord, panicked, overflow_checks, regs

vars == <<pc, op, a, b, count, num, res, ord, panicked, overflow_checks, regs>>

-----------------------------------------------------------------------------
(* Numeric limits. *)

INT24_MAX == 8388607

INT24_MIN == -8388608

I32_MAX == 2147483647

I16_MAX == 32767

I16_MIN == -32768

-----------------------------------------------------------------------------
(* Bounds of the inputs the model explores. *)

\* operands -Small..Small
Small == 2

\* operands INT24_MIN..INT24_MIN+Edge and INT24_MAX-Edge..INT24_MAX
Edge == 1

\* shift counts 0..MaxCount (and 255, the largest u8)
MaxCount == 33

RECURSIVE Pow2(_)
Pow2(n) == IF n = 0 THEN 1 ELSE 2 * Pow2(n - 1)

\* operands around these powers of two: the limb borders and the sign border
PowExps == {8, 15, 16, 22}

\* operands of the unit tests, and the square root of 2^23
TestVectors == {1000, 1010, 100000, 8323072, 2896, 2897}

Int24Inputs ==
    (-Small .. Small)
    \cup {INT24_MIN + i : i \in 0 .. Edge}
    \cup {INT24_MAX - i : i \in 0 .. Edge}
    \cup {s * (Pow2(k) + d) : s \in {-1, 1}, k \in PowExps, d \in {-1, 0, 1}}
    \cup {s * v : s \in {-1, 1}, v \in TestVectors}

CountInputs == (0 .. MaxCount) \cup {255}

\* TRUE; it makes TLC compute v here, so that a loop's state is a value
\* before the next pass and not a pending computation of all passes so far
Evaluated(v) == v = v

-----------------------------------------------------------------------------
(* 8 bit AVR instructions.  A register is a number in 0..255, the carry is  *)
(* 0 or 1.  Each operator returns the record [r: result, c: carry out].    *)

Bit7(x) == x \div 128

Bit0(x) == x % 2

\* add / adc: Rd <- Rd + Rr + C
ADC(rd, rr, c) == [r |-> (rd + rr + c) % 256, c |-> (rd + rr + c) \div 256]

\* sub / sbc / sbci: Rd <- Rd - Rr - C, carry = borrow
SBC(rd, rr, c) == [r |-> (rd - rr - c) % 256, c |-> IF rd - rr - c < 0 THEN 1 ELSE 0]

\* com: one's complement
COM(rd) == 255 - rd

\* neg: two's complement, carry set unless the result is zero
NEG(rd) == [r |-> (256 - rd) % 256, c |-> IF rd = 0 THEN 0 ELSE 1]

\* rol / lsl: rotate left through carry
ROL(rd, c) == [r |-> (2 * rd + c) % 256, c |-> Bit7(rd)]

\* ror: rotate right through carry
ROR(rd, c) == [r |-> rd \div 2 + 128 * c, c |-> Bit0(rd)]

\* asr: arithmetic shift right, bit 7 kept
ASR(rd) == [r |-> rd \div 2 + 128 * Bit7(rd), c |-> Bit0(rd)]

\* cp / cpc: compare with carry; Z stays set only if it was set and the
\* result is zero (cp is cpc with C = 0 and Z = TRUE coming in)
CPC(rd, rr, c, z) == [c |-> SBC(rd, rr, c).c, z |-> z /\ SBC(rd, rr, c).r = 0]

-----------------------------------------------------------------------------
(* Three limb chains of the instructions above. *)

\* add, adc, adc
Add24(x, y) ==
    LET s0 == ADC(x[1], y[1], 0)
        s1 == ADC(x[2], y[2], s0.c)
        s2 == ADC(x[3], y[3], s1.c)
    IN  [v |-> <<s0.r, s1.r, s2.r>>, c |-> s2.c]

\* sub, sbc, sbc
Sub24(x, y) ==
    LET s0 == SBC(x[1], y[1], 0)
        s1 == SBC(x[2], y[2], s0.c)
        s2 == SBC(x[3], y[3], s1.c)
    IN  [v |-> <<s0.r, s1.r, s2.r>>, c |-> s2.c]

\* cp, cpc, cpc: the Z flag of the chain
Cp24Z(x, y) ==
    LET c0 == CPC(x[1], y[1], 0, TRUE)
        c1 == CPC(x[2], y[2], c0.c, c0.z)
        c2 == CPC(x[3], y[3], c1.c, c1.z)
    IN  c2.z

\* Negate24 with com a0 for neg a0: the inversion without the plus one
Negate24_OnesComplement(x) == <<COM(x[1]), COM(x[2]), COM(x[3])>>

\* com a2; com a1; neg a0; sbci a1, 0xFF; sbci a2, 0xFF
Negate24(x) ==
    LET n0 == NEG(x[1])
        n1 == SBC(COM(x[2]), 255, n0.c)
        n2 == SBC(COM(x[3]), 255, n1.c)
    IN  <<n0.r, n1.r, n2.r>>

SatMax == <<255, 255, 127>>

SatMin == <<0, 0, 128>>

Zero24 == <<0, 0, 0>>

\* the expected sign in SREG.T: clt; mov t, a2; eor t, b2; sbrc t, 7; set
SignT(x, y) == Bit7(x[3]) # Bit7(y[3])

-----------------------------------------------------------------------------
(* asm_mulsat24 *)

\* clear upper product and carry: sub p3, p3; sub p4, p4; sub p5, p5
MulStart(y) == [p |-> Zero24, b |-> y, c |-> 0]

\* asr p5; ror p4; ror p3; ror b2; ror b1; ror b0
MulShift(p, y) ==
    LET r5 == ASR(p[3])
        r4 == ROR(p[2], r5.c)
        r3 == ROR(p[1], r4.c)
        r2 == ROR(y[3], r3.c)
        r1 == ROR(y[2], r2.c)
        r0 == ROR(y[1], r1.c)
    IN  [p |-> <<r3.r, r4.r, r5.r>>, b |-> <<r0.r, r1.r, r2.r>>, c |-> r0.c]

\* one pass of the loop body, labels 1: to the dec
MulIter(x, st) ==
    LET p1 == IF st.c = 1 THEN Add24(st.p, x).v ELSE st.p
        p2 == IF Bit0(st.b[1]) = 1 THEN Sub24(p1, x).v ELSE p1
    IN  MulShift(p2, st.b)

RECURSIVE MulLoop(_, _, _)
\* ldi t, 24 ... dec t; brne 1b
MulLoop(x, st, t) ==
    IF t = 0 THEN st
    ELSE LET n == MulIter(x, st)
         IN  IF Evaluated(n) THEN MulLoop(x, n, t - 1) ELSE n

\* MulSaturate without the tests of the product sign (sbrc b2, 7 / sbrs b2, 7)
MulSaturate_NoSignTest(T, st) ==
    IF ~T
    THEN (IF Cp24Z(st.p, Zero24) THEN st.b ELSE SatMax)
    ELSE (IF Cp24Z(st.p, <<255, 255, 255>>) THEN st.b ELSE SatMin)

\* MulSaturate that takes the expected sign from bit 23 of the product, not
\* from SREG.T
MulSaturate_SignFromProduct(T, st) ==
    IF Bit7(st.b[3]) = 0
    THEN (IF Cp24Z(st.p, Zero24) THEN st.b ELSE SatMax)
    ELSE (IF Cp24Z(st.p, <<255, 255, 255>>) THEN st.b ELSE SatMin)

\* the saturation decision after the loop, on SREG.T and the 48 bit product
MulSaturate(T, st) ==
    IF ~T
    THEN IF Bit7(st.b[3]) = 1 THEN SatMax
         ELSE IF Cp24Z(st.p, Zero24) THEN st.b
         ELSE SatMax
    ELSE IF Bit7(st.b[3]) = 0 THEN SatMin
         ELSE IF Cp24Z(st.p, <<255, 255, 255>>) THEN st.b
         ELSE SatMin

\* asm_mulsat24 with sbrc for sbrs in the multiplicand == MIN case
asm_mulsat24_MinCaseSwapped(x, y) ==
    IF Cp24Z(x, Zero24) \/ Cp24Z(y, Zero24) THEN Zero24
    ELSE IF Cp24Z(x, SatMin)
         THEN (IF Bit7(y[3]) = 1 THEN SatMin ELSE SatMax)
    ELSE MulSaturate(SignT(x, y), MulLoop(x, MulStart(y), 24))

asm_mulsat24(x, y) ==
    IF Cp24Z(x, Zero24) \/ Cp24Z(y, Zero24) THEN Zero24
    ELSE IF Cp24Z(x, SatMin)
         THEN (IF Bit7(y[3]) = 1 THEN SatMax ELSE SatMin)
    ELSE MulSaturate(SignT(x, y), MulLoop(x, MulStart(y), 24))

-----------------------------------------------------------------------------
(* asm_divsat24 *)

\* rol a0; rol a1; rol a2
Rol24(x, c) ==
    LET r0 == ROL(x[1], c)
        r1 == ROL(x[2], r0.c)
        r2 == ROL(x[3], r1.c)
    IN  [v |-> <<r0.r, r1.r, r2.r>>, c |-> r2.c]

\* rol a0; rol a1; rol a2; rol a3
Rol32(x, c) ==
    LET r0 == ROL(x[1], c)
        r1 == ROL(x[2], r0.c)
        r2 == ROL(x[3], r1.c)
        r3 == ROL(x[4], r2.c)
    IN  [v |-> <<r0.r, r1.r, r2.r, r3.r>>, c |-> r3.c]

\* sub rem0, b0; sbc rem1, b1; sbc rem2, b2; sbc rem3, __zero_reg__
Sub32(x, d) ==
    LET s0 == SBC(x[1], d[1], 0)
        s1 == SBC(x[2], d[2], s0.c)
        s2 == SBC(x[3], d[3], s1.c)
        s3 == SBC(x[4], 0, s2.c)
    IN  [v |-> <<s0.r, s1.r, s2.r, s3.r>>, c |-> s3.c]

\* add rem0, b0; adc rem1, b1; adc rem2, b2; adc rem3, __zero_reg__
Add32(x, d) ==
    LET s0 == ADC(x[1], d[1], 0)
        s1 == ADC(x[2], d[2], s0.c)
        s2 == ADC(x[3], d[3], s1.c)
        s3 == ADC(x[4], 0, s2.c)
    IN  [v |-> <<s0.r, s1.r, s2.r, s3.r>>, c |-> s3.c]

\* a = abs(a), b = abs(b): negate if negative, saturate to max if the
\* result is still negative
DivAbs(x) ==
    IF Bit7(x[3]) = 0 THEN x
    ELSE IF Bit7(Negate24(x)[3]) = 0 THEN Negate24(x)
    ELSE SatMax

\* DivStart24 with ldi t, 24
DivStart24_Counter24(x) == [a |-> x, rem |-> Zero24, c |-> 0, t |-> 24, n |-> 0]

\* ldi t, 25; sub rem0, rem0; sub rem1, rem1; sub rem2, rem2
DivStart24(x) == [a |-> x, rem |-> Zero24, c |-> 0, t |-> 25, n |-> 0]

\* left shift 'a' by 8; ldi t, 33; sub rem0, rem0 ... sub rem3, rem3
DivStart32(x) ==
    [a |-> <<0, x[1], x[2], x[3]>>, rem |-> <<0, 0, 0, 0>>, c |-> 0, t |-> 33, n |-> 0]

\* label 1: (dividend << 1) + carry; dec t
DivShift24(st) ==
    [st EXCEPT !.a = Rol24(st.a, st.c).v, !.c = Rol24(st.a, st.c).c, !.t = st.t - 1]

DivShift32(st) ==
    [st EXCEPT !.a = Rol32(st.a, st.c).v, !.c = Rol32(st.a, st.c).c, !.t = st.t - 1]

\* DivSubtract24 without the add / adc / adc at label 2
DivSubtract24_NoRestore(st, d) ==
    LET rr == Rol24(st.rem, st.c).v
        sb == Sub24(rr, d)
    IN  IF sb.c = 1
        THEN [st EXCEPT !.rem = sb.v, !.c = 0, !.n = st.n + 1]
        ELSE [st EXCEPT !.rem = sb.v, !.c = 1, !.n = st.n + 1]

\* (remainder << 1) + dividend.23; remainder -= divisor; on borrow restore
\* the remainder and clear the carry, else set the carry.  n counts the
\* passes through this step.
DivSubtract24(st, d) ==
    LET rr == Rol24(st.rem, st.c).v
        sb == Sub24(rr, d)
    IN  IF sb.c = 1
        THEN [st EXCEPT !.rem = Add24(sb.v, d).v, !.c = 0, !.n = st.n + 1]
        ELSE [st EXCEPT !.rem = sb.v, !.c = 1, !.n = st.n + 1]

DivSubtract32(st, d) ==
    LET rr == Rol32(st.rem, st.c).v
        sb == Sub32(rr, d)
    IN  IF sb.c = 1
        THEN [st EXCEPT !.rem = Add32(sb.v, d).v, !.c = 0, !.n = st.n + 1]
        ELSE [st EXCEPT !.rem = sb.v, !.c = 1, !.n = st.n + 1]

RECURSIVE DivLoop24(_, _)
\* 24 bit division logic: label 1 until breq 80f is taken
DivLoop24(st, d) ==
    LET s1 == DivShift24(st)
        s2 == DivSubtract24(s1, d)
    IN  IF s1.t = 0 THEN s1
        ELSE IF Evaluated(s2) THEN DivLoop24(s2, d) ELSE s2

RECURSIVE DivLoop32(_, _)
\* 32 bit division logic: label 1 until breq 3f is taken
DivLoop32(st, d) ==
    LET s1 == DivShift32(st)
        s2 == DivSubtract32(s1, d)
    IN  IF s1.t = 0 THEN s1
        ELSE IF Evaluated(s2) THEN DivLoop32(s2, d) ELSE s2

\* label 3: saturate 32 bit result
DivSaturate32(q) == IF q[4] = 0 THEN <<q[1], q[2], q[3]>> ELSE SatMax

\* label 80: adjust the result sign according to SREG.T
DivSignAdjust(T, q) == IF T THEN Negate24(q) ELSE q

\* DivByZero with sbrc for sbrs
DivByZero_Swapped(x) == IF Bit7(x[3]) = 0 THEN SatMin ELSE SatMax

\* check division by zero: sbrs a2, 7; rjmp 70f; rjmp 60f
DivByZero(x) == IF Bit7(x[3]) = 0 THEN SatMax ELSE SatMin

\* saturate MIN/-1: one cp/cpc chain over b against 0xFFFFFF and a against
\* 0x800000
DivIsMinByMinusOne(x, y) ==
    LET c0 == CPC(y[1], 255, 0, TRUE)
        c1 == CPC(y[2], 255, c0.c, c0.z)
        c2 == CPC(y[3], 255, c1.c, c1.z)
        c3 == CPC(x[1], 0, c2.c, c2.z)
        c4 == CPC(x[2], 0, c3.c, c3.z)
        c5 == CPC(x[3], 128, c4.c, c4.z)
    IN  c5.z

asm_divsat24(x, y, a_shl8) ==
    IF Cp24Z(y, Zero24) THEN DivByZero(x)
    ELSE IF DivIsMinByMinusOne(x, y) THEN SatMax
    ELSE IF ~a_shl8
         THEN DivSignAdjust(SignT(x, y),
                            DivLoop24(DivStart24(DivAbs(x)), DivAbs(y)).a)
         ELSE DivSignAdjust(SignT(x, y),
                  DivSaturate32(DivLoop32(DivStart32(DivAbs(x)), DivAbs(y)).a))

-----------------------------------------------------------------------------
(* asm_negsat24 *)

\* asm_negsat24 without the saturation
asm_negsat24_Wrapping(x) == Negate24(x)

\* mov t, a2; negate; and t, a2; sbrs t, 7: saturate when the old and the
\* new value are both negative
asm_negsat24(x) ==
    IF Bit7(x[3]) = 1 /\ Bit7(Negate24(x)[3]) = 1 THEN SatMax ELSE Negate24(x)

-----------------------------------------------------------------------------
(* asm_shl24, asm_shr24, asm_ge24 *)

\* lsl a0; rol a1; rol a2
Shl24Iter(x) == Rol24(x, 0).v

\* Shr24Iter with lsr a2 for asr a2: no sign extension
Shr24Iter_Logical(x) ==
    LET r1 == ROR(x[2], x[3] % 2)
        r0 == ROR(x[1], r1.c)
    IN  <<r0.r, r1.r, x[3] \div 2>>

\* asr a2; ror a1; ror a0
Shr24Iter(x) ==
    LET r2 == ASR(x[3])
        r1 == ROR(x[2], r2.c)
        r0 == ROR(x[1], r1.c)
    IN  <<r0.r, r1.r, r2.r>>

RECURSIVE Shl24Loop(_, _)
\* label 1 ... dec count; brne 1b: n passes, as the first n \div 2 passes
\* followed by the remaining ones
Shl24Loop(x, n) ==
    IF n = 1 THEN Shl24Iter(x)
    ELSE LET y == Shl24Loop(x, n \div 2)
         IN  IF Evaluated(y) THEN Shl24Loop(y, n - n \div 2) ELSE y

RECURSIVE Shr24Loop(_, _)
Shr24Loop(x, n) ==
    IF n = 1 THEN Shr24Iter(x)
    ELSE LET y == Shr24Loop(x, n \div 2)
         IN  IF Evaluated(y) THEN Shr24Loop(y, n - n \div 2) ELSE y

\* and count, count; breq 2f
asm_shl24(x, n) == IF n = 0 THEN x ELSE Shl24Loop(x, n)

\* asm_shr24 without 'and count, count; breq 2f': a count of zero runs the
\* loop until the 8 bit counter is zero again
asm_shr24_NoZeroTest(x, n) == Shr24Loop(x, IF n = 0 THEN 256 ELSE n)

asm_shr24(x, n) == IF n = 0 THEN x ELSE Shr24Loop(x, n)

\* asm_ge24 with andi c, 0x04: the N flag for the S flag
asm_ge24_NFlag(x, y) ==
    LET c0 == SBC(x[1], y[1], 0)
        c1 == SBC(x[2], y[2], c0.c)
        c2 == SBC(x[3], y[3], c1.c)
    IN  Bit7(c2.r) = 0

\* cp a0, b0; cpc a1, b1; cpc a2, b2; in c, __SREG__; andi c, 0x10:
\* the S flag (N xor V) of the last cpc; c == 0 is a >= b
asm_ge24(x, y) ==
    LET c0 == SBC(x[1], y[1], 0)
        c1 == SBC(x[2], y[2], c0.c)
        c2 == SBC(x[3], y[3], c1.c)
        N == Bit7(c2.r) = 1
        V == \/ Bit7(x[3]) = 1 /\ Bit7(y[3]) = 0 /\ Bit7(c2.r) = 0
             \/ Bit7(x[3]) = 0 /\ Bit7(y[3]) = 1 /\ Bit7(c2.r) = 1
    IN  N = V

-----------------------------------------------------------------------------
(* Conversions (raw::conv). *)

\* sign extension of the three limbs
i24raw_to_i32(x) ==
    x[1] + 256 * x[2] + 65536 * (IF x[3] >= 128 THEN x[3] - 256 ELSE x[3])

\* saturate to the 24 bit range, then the low three bytes
i32_to_i24raw_sat(v) ==
    LET s == IF v > INT24_MAX THEN INT24_MAX
             ELSE IF v < INT24_MIN THEN INT24_MIN ELSE v
        u == s % 16777216
    IN  <<u % 256, (u \div 256) % 256, u \div 65536>>

\* sign extension of the two bytes of v by a third
i16_to_i24raw(v) ==
    LET u == v % 65536
    IN  <<u % 256, u \div 256, IF v < 0 THEN 255 ELSE 0>>

\* magnitude test on bit 15 and the high limb: when these nine bits are not
\* all equal to the sign bit, the 16 bit extreme of that sign; else the low
\* two bytes as an i16
i24raw_to_i16_sat(x) ==
    IF Bit7(x[3]) = 0
    THEN (IF x[3] = 0 /\ Bit7(x[2]) = 0 THEN x[1] + 256 * x[2] ELSE I16_MAX)
    ELSE (IF x[3] = 255 /\ Bit7(x[2]) = 1
          THEN x[1] + 256 * x[2] - 65536 ELSE I16_MIN)

to_i32(x) == i24raw_to_i32(x)

from_i32(v) == i32_to_i24raw_sat(v)

from_i16(v) == i16_to_i24raw(v)

\* to_i16 as a narrowing cast of the low two bytes
to_i16_Truncating(x) ==
    x[1] + 256 * x[2] - (IF Bit7(x[2]) = 1 THEN 65536 ELSE 0)

to_i16(x) == i24raw_to_i16_sat(x)

-----------------------------------------------------------------------------
(* Rust's i32 arithmetic, on byte limbs. *)

\* the eight bytes of v sign extended to 64 bits
Bytes64(v) ==
    LET u == IF v < 0 THEN v + I32_MAX + 1 ELSE v
        top == u \div 16777216 + (IF v < 0 THEN 128 ELSE 0)
        ext == IF v < 0 THEN 255 ELSE 0
    IN  <<u % 256, (u \div 256) % 256, (u \div 65536) % 256, top,
          ext, ext, ext, ext>>

\* column k (0 based) of the schoolbook product
MulColumn(X, Y, k) ==
    LET RECURSIVE Sum(_)
        Sum(i) == IF i > k THEN 0 ELSE X[i + 1] * Y[k - i + 1] + Sum(i + 1)
    IN  Sum(0)

RECURSIVE MulCarry(_, _, _, _)
\* the bytes k..7 of the product, carry coming in
MulCarry(X, Y, k, carry) ==
    IF k > 7 THEN <<>>
    ELSE <<(MulColumn(X, Y, k) + carry) % 256>>
         \o MulCarry(X, Y, k + 1, (MulColumn(X, Y, k) + carry) \div 256)

\* the exact product of two i32 as eight bytes (mod 2^64, which holds it)
WideMul(x, y) == MulCarry(Bytes64(x), Bytes64(y), 0, 0)

\* the i32 held by the low four bytes
I32OfBytes(B) ==
    B[1] + 256 * B[2] + 65536 * B[3]
    + 16777216 * (IF B[4] >= 128 THEN B[4] - 256 ELSE B[4])

\* i32 * i32: [v: the wrapped result, o: whether it overflowed]
I32Mul(x, y) ==
    LET P == WideMul(x, y)
        ext == IF P[4] >= 128 THEN 255 ELSE 0
    IN  [v |-> I32OfBytes(P),
         o |-> ~(P[5] = ext /\ P[6] = ext /\ P[7] = ext /\ P[8] = ext)]

\* i32 / i32, truncating: [v: the quotient, p: whether it panicked].  A
\* zero divisor and I32_MIN / -1 panic in every build.
I32Div(x, y) ==
    IF y = 0 \/ (y = -1 /\ x = -I32_MAX - 1) THEN [v |-> 0, p |-> TRUE]
    ELSE LET d == IF y < 0 THEN -y ELSE y
             f == x \div d
             q == IF x < 0 /\ x % d # 0 THEN f + 1 ELSE f
         IN  [v |-> IF y < 0 THEN -q ELSE q, p |-> FALSE]

\* i32 << 1, the bit shifted out is lost
I32Shl1(v) ==
    IF v >= 1073741824 THEN (v - 1073741824) * 2 + (-I32_MAX - 1)
    ELSE IF v < -1073741824 THEN ((v + 1073741824) * 2 + I32_MAX) + 1
    ELSE 2 * v

RECURSIVE I32ShlBits(_, _)
I32ShlBits(v, n) == IF n = 0 THEN v ELSE I32ShlBits(I32Shl1(v), n - 1)

RECURSIVE I32ShrBits(_, _)
I32ShrBits(v, n) == IF n = 0 THEN v ELSE I32ShrBits(v \div 2, n - 1)

\* i32 << u8: a count of 32 or more panics with overflow checks and is
\* masked to five bits without
I32Shl(v, n, checks) ==
    IF n >= 32 /\ checks THEN [v |-> 0, p |-> TRUE]
    ELSE [v |-> I32ShlBits(v, n % 32), p |-> FALSE]

\* i32 >> u8, arithmetic
I32Shr(v, n, checks) ==
    IF n >= 32 /\ checks THEN [v |-> 0, p |-> TRUE]
    ELSE [v |-> I32ShrBits(v, n % 32), p |-> FALSE]

-----------------------------------------------------------------------------
(* The raw layer (raw.rs): the operations of Int24Raw.  On AVR each goes to *)
(* the routine of asm_avr.rs; add24, sub24, abs24 and eq24 have no routine  *)
(* there.                                                                  *)

\* three chained add with carry steps, then the overflow rule: the operands
\* share a sign and the result's sign differs
add24(x, y) ==
    LET r == Add24(x, y).v
    IN  IF Bit7(x[3]) = Bit7(y[3]) /\ Bit7(r[3]) # Bit7(x[3])
        THEN (IF Bit7(x[3]) = 0 THEN SatMax ELSE SatMin)
        ELSE r

\* three chained subtract with borrow steps, then the overflow rule with the
\* second operand's sign inverted
sub24(x, y) ==
    LET r == Sub24(x, y).v
    IN  IF Bit7(x[3]) # Bit7(y[3]) /\ Bit7(r[3]) # Bit7(x[3])
        THEN (IF Bit7(x[3]) = 0 THEN SatMax ELSE SatMin)
        ELSE r

mul24(x, y) == asm_mulsat24(x, y)

div24(x, y) == asm_divsat24(x, y, FALSE)

shl24_by8_div24(x, y) == asm_divsat24(x, y, TRUE)

neg24(x) == asm_negsat24(x)

abs24(x) == IF Bit7(x[3]) = 1 THEN neg24(x) ELSE x

shl24(x, n) == asm_shl24(x, n)

shr24(x, n) == asm_shr24(x, n)

\* whole byte moves: the limbs go up by one or two places and zero comes in
shl24_by8(x) == <<0, x[1], x[2]>>

shl24_by16(x) == <<0, 0, x[1]>>

\* the limbs go down by one or two places and the sign comes in
shr24_by8(x) == <<x[2], x[3], IF Bit7(x[3]) = 1 THEN 255 ELSE 0>>

shr24_by16(x) ==
    <<x[3], IF Bit7(x[3]) = 1 THEN 255 ELSE 0, IF Bit7(x[3]) = 1 THEN 255 ELSE 0>>

eq24(x, y) == x[1] = y[1] /\ x[2] = y[2] /\ x[3] = y[3]

ge24(x, y) == asm_ge24(x, y)

-----------------------------------------------------------------------------
(* Int24 (lib.rs).  A const variant returns [v: the value, p: whether the   *)
(* call panicked]; checks is whether the build has overflow checks.        *)

Returned(v) == [v |-> v, p |-> FALSE]

Panicked == [v |-> Zero24, p |-> TRUE]

add(x, y) == add24(x, y)

\* const_add narrowing without saturation
const_add_Truncating(x, y) ==
    Returned(Add24(x, y).v)

const_add(x, y) == Returned(from_i32(to_i32(x) + to_i32(y)))

sub(x, y) == sub24(x, y)

\* const_sub with the + of const_add
const_sub_Adding(x, y) == Returned(from_i32(to_i32(x) + to_i32(y)))

const_sub(x, y) == Returned(from_i32(to_i32(x) - to_i32(y)))

mul(x, y) == mul24(x, y)

const_mul(x, y, checks) ==
    LET m == I32Mul(to_i32(x), to_i32(y))
    IN  IF m.o /\ checks THEN Panicked ELSE Returned(from_i32(m.v))

div(x, y) == div24(x, y)

const_div(x, y) ==
    LET q == I32Div(to_i32(x), to_i32(y))
    IN  IF q.p THEN Panicked ELSE Returned(from_i32(q.v))

shl8div(x, y) == shl24_by8_div24(x, y)

const_shl8div(x, y) ==
    LET q == I32Div(I32ShlBits(to_i32(x), 8), to_i32(y))
    IN  IF q.p THEN Panicked ELSE Returned(from_i32(q.v))

neg(x) == neg24(x)

const_neg(x) == Returned(from_i32(-to_i32(x)))

abs(x) == abs24(x)

const_abs(x) == IF to_i32(x) < 0 THEN const_neg(x) ELSE Returned(x)

shl8(x) == shl24_by8(x)

shl16(x) == shl24_by16(x)

shl(x, n) == shl24(x, n)

const_shl(x, n, checks) ==
    LET r == I32Shl(to_i32(x), n, checks)
    IN  IF r.p THEN Panicked ELSE Returned(from_i32(r.v))

shr8(x) == shr24_by8(x)

shr16(x) == shr24_by16(x)

shr(x, n) == shr24(x, n)

const_shr(x, n, checks) ==
    LET r == I32Shr(to_i32(x), n, checks)
    IN  IF r.p THEN Panicked ELSE Returned(from_i32(r.v))

cmp(x, y) ==
    IF eq24(x, y) THEN "Equal"
    ELSE IF ge24(x, y) THEN "Greater"
    ELSE "Less"

const_cmp(x, y) ==
    IF to_i32(x) = to_i32(y) THEN "Equal"
    ELSE IF to_i32(x) >= to_i32(y) THEN "Greater"
    ELSE "Less"

-----------------------------------------------------------------------------
(* The caller: one call of an operation at a time.  pc is "idle" between    *)
(* calls and "done" when a call has returned or panicked; op, a, b, count   *)
(* hold the call, res, ord and panicked its outcome.  overflow_checks is    *)
(* the build setting the call ran under, for the operations it matters to. *)
(* num is the i16 of a conversion; regs are the registers of the division  *)
(* loop, used by the pass by pass specification SpecDiv only.              *)

Raw(v) == from_i32(v)

\* the registers of the division loop while no division is in its loop
NoRegs == [a |-> Zero24, rem |-> Zero24, c |-> 0, t |-> 0, n |-> 0]

Inputs == {Raw(v) : v \in Int24Inputs}

Init ==
    /\ pc = "idle"
    /\ op = "none"
    /\ a = Zero24
    /\ b = Zero24
    /\ count = 0
    /\ num = 0
    /\ res = Zero24
    /\ ord = "none"
    /\ panicked = FALSE
    /\ overflow_checks = FALSE
    /\ regs = NoRegs

\* a call has come back: r is [v, p]
Outcome(name, x, y, n, r, o, checks) ==
    /\ pc' = "done"
    /\ op' = name
    /\ a' = x
    /\ b' = y
    /\ count' = n
    /\ num' = 0
    /\ res' = r.v
    /\ ord' = o
    /\ panicked' = r.p
    /\ overflow_checks' = checks
    /\ regs' = NoRegs

Call_add ==
    /\ pc = "idle"
    /\ \E x \in Inputs, y \in Inputs :
           Outcome("add", x, y, 0, Returned(add(x, y)), "none", FALSE)

Call_const_add ==
    /\ pc = "idle"
    /\ \E x \in Inputs, y \in Inputs :
           Outcome("const_add", x, y, 0, const_add(x, y), "none", FALSE)

Call_sub ==
    /\ pc = "idle"
    /\ \E x \in Inputs, y \in Inputs :
           Outcome("sub", x, y, 0, Returned(sub(x, y)), "none", FALSE)

Call_const_sub ==
    /\ pc = "idle"
    /\ \E x \in Inputs, y \in Inputs :
           Outcome("const_sub", x, y, 0, const_sub(x, y), "none", FALSE)

Call_mul ==
    /\ pc = "idle"
    /\ \E x \in Inputs, y \in Inputs :
           Outcome("mul", x, y, 0, Returned(mul(x, y)), "none", FALSE)

Call_const_mul ==
    /\ pc = "idle"
    /\ \E x \in Inputs, y \in Inputs, checks \in BOOLEAN :
           Outcome("const_mul", x, y, 0, const_mul(x, y, checks), "none", checks)

Call_div ==
    /\ pc = "idle"
    /\ \E x \in Inputs, y \in Inputs :
           Outcome("div", x, y, 0, Returned(div(x, y)), "none", FALSE)

Call_const_div ==
    /\ pc = "idle"
    /\ \E x \in Inputs, y \in Inputs :
           Outcome("const_div", x, y, 0, const_div(x, y), "none", FALSE)

Call_shl8div ==
    /\ pc = "idle"
    /\ \E x \in Inputs, y \in Inputs :
           Outcome("shl8div", x, y, 0, Returned(shl8div(x, y)), "none", FALSE)

Call_const_shl8div ==
    /\ pc = "idle"
    /\ \E x \in Inputs, y \in Inputs :
           Outcome("const_shl8div", x, y, 0, const_shl8div(x, y), "none", FALSE)

Call_neg ==
    /\ pc = "idle"
    /\ \E x \in Inputs :
           Outcome("neg", x, Zero24, 0, Returned(neg(x)), "none", FALSE)

Call_const_neg ==
    /\ pc = "idle"
    /\ \E x \in Inputs :
           Outcome("const_neg", x, Zero24, 0, const_neg(x), "none", FALSE)

Call_abs ==
    /\ pc = "idle"
    /\ \E x \in Inputs :
           Outcome("abs", x, Zero24, 0, Returned(abs(x)), "none", FALSE)

Call_const_abs ==
    /\ pc = "idle"
    /\ \E x \in Inputs :
           Outcome("const_abs", x, Zero24, 0, const_abs(x), "none", FALSE)

Call_shl8 ==
    /\ pc = "idle"
    /\ \E x \in Inputs :
           Outcome("shl8", x, Zero24, 0, Returned(shl8(x)), "none", FALSE)

Call_shl16 ==
    /\ pc = "idle"
    /\ \E x \in Inputs :
           Outcome("shl16", x, Zero24, 0, Returned(shl16(x)), "none", FALSE)

Call_shl ==
    /\ pc = "idle"
    /\ \E x \in Inputs, n \in CountInputs :
           Outcome("shl", x, Zero24, n, Returned(shl(x, n)), "none", FALSE)

Call_const_shl ==
    /\ pc = "idle"
    /\ \E x \in Inputs, n \in CountInputs, checks \in BOOLEAN :
           Outcome("const_shl", x, Zero24, n, const_shl(x, n, checks), "none", checks)

Call_shr8 ==
    /\ pc = "idle"
    /\ \E x \in Inputs :
           Outcome("shr8", x, Zero24, 0, Returned(shr8(x)), "none", FALSE)

Call_shr16 ==
    /\ pc = "idle"
    /\ \E x \in Inputs :
           Outcome("shr16", x, Zero24, 0, Returned(shr16(x)), "none", FALSE)

Call_shr ==
    /\ pc = "idle"
    /\ \E x \in Inputs, n \in CountInputs :
           Outcome("shr", x, Zero24, n, Returned(shr(x, n)), "none", FALSE)

Call_const_shr ==
    /\ pc = "idle"
    /\ \E x \in Inputs, n \in CountInputs, checks \in BOOLEAN :
           Outcome("const_shr", x, Zero24, n, const_shr(x, n, checks), "none", checks)

Call_cmp ==
    /\ pc = "idle"
    /\ \E x \in Inputs, y \in Inputs :
           Outcome("cmp", x, y, 0, Returned(Zero24), cmp(x, y), FALSE)

Call_const_cmp ==
    /\ pc = "idle"
    /\ \E x \in Inputs, y \in Inputs :
           Outcome("const_cmp", x, y, 0, Returned(Zero24), const_cmp(x, y), FALSE)

\* the i16 arguments: the operands that are in the 16 bit range
Int16Inputs == {v \in Int24Inputs : v >= I16_MIN /\ v <= I16_MAX}

\* a conversion has come back: v is the i16 of the call (the argument of
\* from_i16, the result of to_i16), r the Int24 returned
Converted(name, x, r, v) ==
    /\ pc' = "done"
    /\ op' = name
    /\ a' = x
    /\ b' = Zero24
    /\ count' = 0
    /\ num' = v
    /\ res' = r
    /\ ord' = "none"
    /\ panicked' = FALSE
    /\ overflow_checks' = FALSE
    /\ regs' = NoRegs

Call_from_i16 ==
    /\ pc = "idle"
    /\ \E v \in Int16Inputs : Converted("from_i16", Zero24, from_i16(v), v)

Call_to_i16 ==
    /\ pc = "idle"
    /\ \E x \in Inputs : Converted("to_i16", x, Zero24, to_i16(x))

\* the caller takes the outcome and is ready for the next call
Return ==
    /\ pc = "done"
    /\ pc' = "idle"
    /\ op' = "none"
    /\ a' = Zero24
    /\ b' = Zero24
    /\ count' = 0
    /\ num' = 0
    /\ res' = Zero24
    /\ ord' = "none"
    /\ panicked' = FALSE
    /\ overflow_checks' = FALSE
    /\ regs' = NoRegs

Next ==
    \/ Call_add
    \/ Call_const_add
    \/ Call_sub
    \/ Call_const_sub
    \/ Call_mul
    \/ Call_const_mul
    \/ Call_div
    \/ Call_const_div
    \/ Call_shl8div
    \/ Call_const_shl8div
    \/ Call_neg
    \/ Call_const_neg
    \/ Call_abs
    \/ Call_const_abs
    \/ Call_shl8
    \/ Call_shl16
    \/ Call_shl
    \/ Call_const_shl
    \/ Call_shr8
    \/ Call_shr16
    \/ Call_shr
    \/ Call_const_shr
    \/ Call_cmp
    \/ Call_const_cmp
    \/ Call_from_i16
    \/ Call_to_i16
    \/ Return

Spec == Init /\ [][Next]_vars

-----------------------------------------------------------------------------
(* asm_divsat24 pass by pass.  A division enters with its operands; unless *)
(* a special case returns at once, pc is "loop" while the registers regs   *)
(* go through the passes of label 1, "exit" when the loop counter has      *)
(* reached zero, and "done" after the saturation and the sign adjust.      *)

\* the call is shl8div (a_shl8 set)
Wide == op = "shl8div"

\* the divisor after b = abs(b)
Divisor == DivAbs(b)

\* the entry of asm_divsat24 down to the loop setup
DivEnter ==
    /\ pc = "idle"
    /\ \E x \in Inputs, y \in Inputs, a_shl8 \in BOOLEAN :
           /\ op' = (IF a_shl8 THEN "shl8div" ELSE "div")
           /\ a' = x
           /\ b' = y
           /\ IF Cp24Z(y, Zero24)
              THEN pc' = "done" /\ res' = DivByZero(x) /\ regs' = NoRegs
              ELSE IF DivIsMinByMinusOne(x, y)
              THEN pc' = "done" /\ res' = SatMax /\ regs' = NoRegs
              ELSE /\ pc' = "loop"
                   /\ res' = Zero24
                   /\ regs' = (IF a_shl8 THEN DivStart32(DivAbs(x))
                               ELSE DivStart24(DivAbs(x)))
    /\ UNCHANGED <<count, num, ord, panicked, overflow_checks>>

\* one pass from label 1: rol of the dividend, dec t, and either the branch
\* out of the loop or the subtract / restore step and rjmp 1b
DivPass ==
    /\ pc = "loop"
    /\ LET s1 == IF Wide THEN DivShift32(regs) ELSE DivShift24(regs)
       IN  IF s1.t = 0
           THEN pc' = "exit" /\ regs' = s1
           ELSE /\ pc' = "loop"
                /\ regs' = (IF Wide THEN DivSubtract32(s1, Divisor)
                            ELSE DivSubtract24(s1, Divisor))
    /\ UNCHANGED <<op, a, b, count, num, res, ord, panicked, overflow_checks>>

\* label 3 (32 bit form) and label 80: saturate, adjust the sign, return
DivExit ==
    /\ pc = "exit"
    /\ pc' = "done"
    /\ res' = DivSignAdjust(SignT(a, b),
                            IF Wide THEN DivSaturate32(regs.a) ELSE regs.a)
    /\ UNCHANGED <<op, a, b, count, num, ord, panicked, overflow_checks, regs>>

NextDiv ==
    \/ DivEnter
    \/ DivPass
    \/ DivExit
    \/ Return

SpecDiv == Init /\ [][NextDiv]_vars

-----------------------------------------------------------------------------
(* Reference arithmetic for the claims, on mathematical integers. *)

Abs(v) == IF v < 0 THEN -v ELSE v

Clamp24(v) ==
    IF v > INT24_MAX THEN INT24_MAX ELSE IF v < INT24_MIN THEN INT24_MIN ELSE v

\* clamp(x * y, INT24_MIN, INT24_MAX) of the exact product, without forming
\* a product that is out of the 24 bit range: |x|*|y| > n iff |x| > n \div |y|
MulClamp(x, y) ==
    IF x = 0 \/ y = 0 THEN 0
    ELSE IF (x < 0) = (y < 0)
         THEN (IF Abs(x) > INT24_MAX \div Abs(y) THEN INT24_MAX ELSE x * y)
         ELSE (IF Abs(x) > (INT24_MAX + 1) \div Abs(y) THEN INT24_MIN ELSE x * y)

\* x / y truncated toward zero, for y > 0
TruncQuotPos(x, y) ==
    IF x < 0 /\ x % y # 0 THEN x \div y + 1 ELSE x \div y

\* clamp(trunc(x / y), INT24_MIN, INT24_MAX), for y # 0
QuotClamp(x, y) ==
    IF y > 0 THEN Clamp24(TruncQuotPos(x, y))
    ELSE IF TruncQuotPos(x, -y) < -INT24_MAX THEN INT24_MAX
    ELSE Clamp24(-TruncQuotPos(x, -y))

\* the low 24 bits of x * 2^n as a two's complement 24 bit value
Low24Shifted(x, n) ==
    IF n >= 24 THEN 0
    ELSE LET u == ((x % 16777216) % Pow2(24 - n)) * Pow2(n)
         IN  IF u >= 8388608 THEN u - 16777216 ELSE u

Done(name) == pc = "done" /\ op = name

A == to_i32(a)

B == to_i32(b)

R == to_i32(res)

-----------------------------------------------------------------------------
(* The claims. *)

\* C1: for every pair of 24 bit values a, b, mul(a, b) returns the exact
\* product a*b clamped to [INT24_MIN, INT24_MAX].
C1_MulIsClampedProduct == Done("mul") => R = MulClamp(A, B)

\* C1 witness: mul has returned a product that went through the loop and
\* saturated on the sign of its low 24 bits (2896 * 2897 = 8389712 >= 2^23).
C1_Witness == Done("mul") /\ A = 2896 /\ B = 2897 /\ R = INT24_MAX

\* C2: for every a and every nonzero b, div(a, b) returns the quotient a/b
\* truncated toward zero and clamped, the same value as const_div(a, b).
C2_DivIsTruncatedQuotient ==
    (Done("div") /\ B # 0) =>
        /\ R = QuotClamp(A, B)
        /\ res = const_div(a, b).v

\* C3: for every a and every nonzero b, shl8div(a, b) returns
\* clamp(trunc((a*256) / b)), INT24_MAX on positive and INT24_MIN on negative
\* overflow.
C3_Shl8DivIsClampedQuotient ==
    (Done("shl8div") /\ B # 0) => R = QuotClamp(256 * A, B)

\* C4: division by zero never fails: div(x, 0) returns INT24_MAX when
\* x >= 0 and INT24_MIN when x < 0.
C4_DivByZeroConvention ==
    (Done("div") /\ B = 0) =>
        /\ ~panicked
        /\ R = IF A >= 0 THEN INT24_MAX ELSE INT24_MIN

\* C4 witness: a negative dividend has been divided by zero.
C4_Witness == Done("div") /\ B = 0 /\ A = -1000 /\ R = INT24_MIN

\* C5: neg(MIN) = MAX, abs(MIN) = MAX and div(MIN, -1) = MAX.
C5_MinSaturatesToMax ==
    /\ (Done("neg") /\ A = INT24_MIN) => R = INT24_MAX
    /\ (Done("abs") /\ A = INT24_MIN) => R = INT24_MAX
    /\ (Done("div") /\ A = INT24_MIN /\ B = -1) => R = INT24_MAX

\* C5 witness: the minimum has been negated.
C5_Witness == Done("neg") /\ A = INT24_MIN /\ R = INT24_MAX

\* C6: no operation ever panics: every operation, optimized or const,
\* returns a value for every operand combination.
C6_NoOperationPanics == pc = "done" => ~panicked

\* C7: for every pair a, b, add(a, b) returns a+b clamped to
\* [INT24_MIN, INT24_MAX], the same value as const_add(a, b).
C7_AddIsClampedSum ==
    Done("add") =>
        /\ R = Clamp24(A + B)
        /\ ~const_add(a, b).p
        /\ res = const_add(a, b).v

\* C7 witness: (MAX - 1) + 2 has saturated to MAX.
C7_Witness == Done("add") /\ A = INT24_MAX - 1 /\ B = 2 /\ R = INT24_MAX

\* C8: for every pair a, b, sub(a, b) returns a-b clamped to
\* [INT24_MIN, INT24_MAX], the same value as const_sub(a, b), also for
\* b = INT24_MIN.
C8_SubIsClampedDifference ==
    Done("sub") =>
        /\ R = Clamp24(A - B)
        /\ ~const_sub(a, b).p
        /\ res = const_sub(a, b).v

\* C8 witness: the minimum has been subtracted from a value that is not
\* negative, which saturates.
C8_Witness == Done("sub") /\ A = 1 /\ B = INT24_MIN /\ R = INT24_MAX

\* C9: for every pair a, b, const_mul(a, b) returns the same value as
\* mul(a, b).
C9_ConstMulEqualsMul ==
    Done("const_mul") => (~panicked /\ res = mul(a, b))

\* C10: for every x and count, shl(x, count) and const_shl(x, count) both
\* return the low 24 bits of x * 2^count, and so the same value.
C10_ShlFamilyTruncates ==
    (Done("shl") \/ Done("const_shl")) =>
        /\ ~panicked
        /\ R = Low24Shifted(A, count)

\* C11: to_i16 saturates: to_i16(x) is to_i32(x) clamped to -32768..32767,
\* which is 32767 for every x >= 32768 and -32768 for every x <= -32769;
\* and from_i16(v).to_i16() == v for every 16 bit v.
C11_ToI16Saturates ==
    /\ Done("to_i16") =>
           /\ num = (IF A > I16_MAX THEN I16_MAX
                     ELSE IF A < I16_MIN THEN I16_MIN ELSE A)
           /\ (A >= 32768 => num = 32767)
           /\ (A <= -32769 => num = -32768)
    /\ Done("from_i16") => to_i32(res) = num /\ to_i16(res) = num

\* to_i16 has saturated a value one past the 16 bit range
C11_Witness == Done("to_i16") /\ A = -32769 /\ num = I16_MIN

\* the ordering with its sides exchanged
Reverse(o) == IF o = "Less" THEN "Greater" ELSE IF o = "Greater" THEN "Less" ELSE o

\* C12: cmp(a, b) is the ordering of to_i32(a) versus to_i32(b) and equals
\* const_cmp(a, b); it is a strict total order: Equal only for equal
\* operands, cmp(b, a) the reverse of cmp(a, b), and a < b, b < z give a < z.
C12_CmpIsI32Order ==
    Done("cmp") =>
        /\ ord = (IF A = B THEN "Equal" ELSE IF A > B THEN "Greater" ELSE "Less")
        /\ ord = const_cmp(a, b)
        /\ (ord = "Equal") = (a = b)
        /\ cmp(b, a) = Reverse(ord)
        /\ \A z \in Inputs :
               ord = "Less" /\ cmp(b, z) = "Less" => cmp(a, z) = "Less"

\* a comparison whose subtraction overflows 24 bits: MIN against MAX
C12_Witness == Done("cmp") /\ A = INT24_MIN /\ B = INT24_MAX /\ ord = "Less"

\* C13: the whole byte shifts are bit-identical to the generic shifts:
\* shl8(x) == shl(x, 8), shl16(x) == shl(x, 16), shr8(x) == shr(x, 8) and
\* shr16(x) == shr(x, 16), for negative x and discarded high bits too.
C13_ByteShiftsEqualBitShifts ==
    /\ Done("shl8") => res = shl(a, 8)
    /\ Done("shl16") => res = shl(a, 16)
    /\ Done("shr8") => res = shr(a, 8)
    /\ Done("shr16") => res = shr(a, 16)

\* shr16 of a negative value whose low limbs are shifted out
C13_Witness == Done("shr16") /\ A = -65537 /\ R = -2

\* floor(x / 2^n) for a 24 bit x, without forming 2^n for n >= 24
FloorShifted(x, n) ==
    IF n >= 24 THEN (IF x < 0 THEN -1 ELSE 0) ELSE x \div Pow2(n)

\* C14: shr(x, count) is floor(x / 2^count) for every count of a u8:
\* shr(x, 0) is x, and from count 23 on the result is 0 for x >= 0 and -1
\* for x < 0.
C14_ShrIsFloorDivision ==
    Done("shr") =>
        /\ R = FloorShifted(A, count)
        /\ (count = 0 => res = a)
        /\ (count >= 23 => R = (IF A < 0 THEN -1 ELSE 0))

\* a negative odd value shifted by one: the quotient is rounded down
C14_Witness == Done("shr") /\ A = -257 /\ count = 1 /\ R = -129

\* C15: neg(a) is -a clamped to the 24 bit range and equals const_neg(a):
\* the exact negation for every a # MIN (neg(0) == 0, neg(neg(a)) == a),
\* saturated only for a == MIN.
C15_NegIsClampedNegation ==
    Done("neg") =>
        /\ R = Clamp24(-A)
        /\ res = const_neg(a).v /\ ~const_neg(a).p
        /\ (A # INT24_MIN => R = -A /\ neg(res) = a)
        /\ (A = 0 => res = Zero24)
        /\ (R # -A => A = INT24_MIN)

\* a negation whose plus one carries from the low limb into the next
C15_Witness == Done("neg") /\ A = -256 /\ R = 256

\* the call is a mul that has gone through the multiplication loop
MulLoopReached == Done("mul") /\ a # Zero24 /\ b # Zero24 /\ a # SatMin

\* the 48 bit product after the loop of the call: p the high 24 bits, b the
\* low 24 bits
MulProduct == MulLoop(a, MulStart(b), 24)

\* C16 (as stated): after the loop the result is MAX when the expected sign
\* is positive and the high 24 bits of the product are nonzero, MIN when the
\* expected sign is negative and the high 24 bits are not all ones, and the
\* low 24 bits of the product in every other case.
C16_MulSaturationOnHighBits ==
    MulLoopReached =>
        res = (IF ~SignT(a, b) /\ MulProduct.p # Zero24 THEN SatMax
               ELSE IF SignT(a, b) /\ MulProduct.p # <<255, 255, 255>> THEN SatMin
               ELSE MulProduct.b)

\* C16 (amended): bit 23 of the low 24 bits is part of the test: the result
\* is MAX when the expected sign is positive and the high 24 bits are
\* nonzero or bit 23 is set, MIN when the expected sign is negative and the
\* high 24 bits are not all ones or bit 23 is clear, and the low 24 bits in
\* every other case.
C16_MulSaturationOnHighBitsAndBit23 ==
    MulLoopReached =>
        res = (IF ~SignT(a, b)
                  /\ (MulProduct.p # Zero24 \/ MulProduct.b[3] >= 128)
               THEN SatMax
               ELSE IF SignT(a, b)
                       /\ (MulProduct.p # <<255, 255, 255>> \/ MulProduct.b[3] < 128)
               THEN SatMin
               ELSE MulProduct.b)

\* a negative product whose high 24 bits are all ones and whose bit 23 is
\* clear: -2896 * 2897 = -8389712 saturates to MIN
C16_Witness ==
    /\ MulLoopReached /\ A = -2896 /\ B = 2897
    /\ MulProduct.p = <<255, 255, 255>> /\ MulProduct.b[3] < 128
    /\ R = INT24_MIN

\* the pass by pass division returns what asm_divsat24 returns
DivStepsAgree ==
    (pc = "done" /\ op \in {"div", "shl8div"}) => res = asm_divsat24(a, b, Wide)

\* C17 (as stated): the division loop ends after a fixed number of one bit
\* iterations (shift the remainder, subtract / restore the divisor)
\* whatever the operands: 24 for div and 33 for shl8div.
C17_DivIterations24And33 ==
    pc = "exit" => regs.t = 0 /\ regs.n = (IF Wide THEN 33 ELSE 24)

\* C17 (amended): the division loop ends after a fixed number of one bit
\* iterations whatever the operands: 24 for div and 32 for shl8div.  The
\* loop counter starts one higher (25 and 33), falls by one with every
\* pass, and the last pass only rotates the last quotient bit in.
C17_DivIterations24And32 ==
    /\ pc = "loop" =>
           regs.t > 0 /\ regs.n + regs.t = (IF Wide THEN 33 ELSE 25)
    /\ pc = "exit" => regs.t = 0 /\ regs.n = (IF Wide THEN 32 ELSE 24)

\* shl8div(100000, 1010) has left its loop after 32 iterations with the
\* quotient 25346 = 0x6302
C17_Witness ==
    /\ pc = "exit" /\ Wide /\ A = 100000 /\ B = 1010
    /\ regs.n = 32 /\ regs.a = <<2, 99, 0, 0>>

\* C18: multiplication is commutative: mul(a, b) == mul(b, a) for every
\* pair, also when exactly one operand is MIN or one operand is zero.
C18_MulCommutes == Done("mul") => res = mul(b, a)

\* MIN as the multiplier only: the product goes through the loop, while the
\* exchanged call takes the multiplicand == MIN branch
C18_Witness == Done("mul") /\ A = 2 /\ B = INT24_MIN /\ R = INT24_MIN

\* C19: the sign of a quotient never contradicts the expected sign: for a
\* nonzero b the results of div(a, b) and shl8div(a, b) are >= 0 when the
\* sign bits of a and b are equal and <= 0 when they differ.
C19_QuotientSignMatches ==
    ((Done("div") \/ Done("shl8div")) /\ B # 0) =>
        IF SignT(a, b) THEN R <= 0 ELSE R >= 0

\* the part of C19 about div alone
C19_DivSignMatches ==
    (Done("div") /\ B # 0) => IF SignT(a, b) THEN R <= 0 ELSE R >= 0

\* |x|: the operand magnitude after the abs step of asm_divsat24
Mag(x) == i24raw_to_i32(DivAbs(x))

\* the dividend of the loop: |a|, times 256 for shl8div (below 2^31)
Dividend == IF Wide THEN 256 * Mag(a) ELSE Mag(a)

\* the number a 3 or 4 limb register holds, with bit 31 left out
Value31(reg) ==
    reg[1] + 256 * reg[2] + 65536 * reg[3]
    + (IF Len(reg) = 4 THEN 16777216 * (reg[4] % 128) ELSE 0)

\* the number a register holds; -1 when it is 2^31 or more
RegValue(reg) == IF Len(reg) = 4 /\ reg[4] >= 128 THEN -1 ELSE Value31(reg)

\* the number held by the low n bits of a register
LowBits(reg, n) ==
    IF n >= 32 THEN RegValue(reg)
    ELSE IF n = 31 THEN Value31(reg)
    ELSE Value31(reg) % Pow2(n)

\* the dividend bits consumed after regs.n iterations, as a number: the top
\* regs.n bits of the 24 or 32 bit dividend (bit 31 of the dividend is zero)
Consumed ==
    LET left == (IF Wide THEN 32 ELSE 24) - regs.n
    IN  IF left >= 31 THEN 0 ELSE Dividend \div Pow2(left)

\* C20: loop invariant of the restoring division, 24 and 32 bit loop: after
\* every iteration the remainder is below |b| (and its shift fits the
\* register), and consumed dividend bits == quotient bits so far * |b| +
\* remainder; at the exit the quotient register holds floor(|a| / |b|) for
\* div and floor(|a| * 256 / |b|) for shl8div.  The quotient bits so far
\* are the low regs.n bits of the dividend register followed by the carry;
\* the equation is stated as quotient and remainder of the Euclidean
\* division, which has no product that could leave 32 bits.
C20_DivLoopInvariant ==
    /\ pc = "loop" =>
           /\ RegValue(regs.rem) >= 0 /\ RegValue(regs.rem) < Mag(b)
           /\ 2 * RegValue(regs.rem) + 1 < Pow2(24)
           /\ RegValue(regs.rem) = Consumed % Mag(b)
           /\ LowBits(regs.a, regs.n) = (Consumed \div Mag(b)) \div 2
           /\ regs.c = (Consumed \div Mag(b)) % 2
    /\ pc = "exit" =>
           /\ RegValue(regs.a) = Dividend \div Mag(b)
           /\ RegValue(regs.rem) = Dividend % Mag(b)

\* div(-100000, 1010) after 20 of its 24 iterations: 6250 consumed, the
\* quotient bits 110 (two of them rotated in, the third in the carry) and
\* the remainder 190
C20_Witness ==
    /\ pc = "loop" /\ ~Wide /\ A = -100000 /\ B = 1010 /\ regs.n = 20
    /\ Consumed = 6250 /\ LowBits(regs.a, 20) = 3 /\ regs.c = 0
    /\ RegValue(regs.rem) = 190

====
